---- MODULE Spec2Model ----
(***************************************************************************)
(* A model of decouple/decouple.py: the Resolver (Config), the Repository  *)
(* variants (RepositoryEmpty, RepositoryIni, RepositoryEnv,                *)
(* RepositorySecret) and the Locator (AutoConfig).                         *)
(*                                                                         *)
(* A Python str is a sequence of one-character strings.  A Python value is *)
(* a record [t, s, b]: t the type name, s the text of a str, b the truth   *)
(* value of a bool.  A dict is a function whose DOMAIN is its key set.     *)
(***************************************************************************)
EXTENDS Integers, Sequences, FiniteSets, TLC

VARIABLES
    environ,      \* os.environ: a dict from str to str
    config,       \* the Config in use (for AutoConfig: self.config, None until loaded)
    search_path,  \* AutoConfig.search_path: the directory the search starts in
    fs,           \* the file system: what is_file() does for each (directory, name)
    file,         \* the text of the environment file RepositoryEnv reads
    searches,     \* how many times AutoConfig._load has run the search (ghost)
    csv_value,    \* the value a Csv is called with
    last          \* the last operation: its arguments and its outcome

vars == <<environ, config, search_path, fs, file, searches, csv_value, last>>

-----------------------------------------------------------------------------
(* Bounds of the model *)

\* longest raw string enumerated exhaustively for the boolean cast
MaxRawLen == 2
\* longest environment-file text enumerated exhaustively
MaxTextLen == 4
\* deepest directory below the filesystem root
MaxDepth == 2
\* frames _find_file may stack before Python raises RecursionError
\* (sys.getrecursionlimit(), 1000 by default, cut down to a small number)
RecursionLimit == 5
\* searches one AutoConfig is followed through
MaxSearches == 2
\* longest raw string enumerated exhaustively for the list-splitter
MaxCsvLen == 4

-----------------------------------------------------------------------------
(* Python values *)

PyStr(x) == [t |-> "str", s |-> x, b |-> FALSE]
PyBool(x) == [t |-> "bool", s |-> <<>>, b |-> x]
PyNone == [t |-> "NoneType", s |-> <<>>, b |-> FALSE]
\* what an opaque user-supplied cast returns for the str x
PyCasted(x) == [t |-> "casted", s |-> x, b |-> FALSE]

\* src: undefined = Undefined()
undefined == [t |-> "Undefined", s |-> <<>>, b |-> FALSE]

\* outcomes of a call: a returned value or a raised exception, with the
\* casts that were invoked on the way (ghost)
Return(v, calls) == [kind |-> "return", val |-> v, exc |-> "", calls |-> calls]
Raise(e, calls) == [kind |-> "raise", val |-> PyNone, exc |-> e, calls |-> calls]

-----------------------------------------------------------------------------
(* Text helpers: str.lower, str.strip, str(bool) *)

UpperCase ==
    <<"A","B","C","D","E","F","G","H","I","J","K","L","M",
      "N","O","P","Q","R","S","T","U","V","W","X","Y","Z">>
LowerCase ==
    <<"a","b","c","d","e","f","g","h","i","j","k","l","m",
      "n","o","p","q","r","s","t","u","v","w","x","y","z">>

LowerChar(c) ==
    IF \E i \in 1..26 : UpperCase[i] = c
    THEN LowerCase[CHOOSE i \in 1..26 : UpperCase[i] = c]
    ELSE c

\* str.lower()
Lower(x) == [i \in 1..Len(x) |-> LowerChar(x[i])]

\* str.isspace() of one character
IsSpace(c) == c \in {" ", "\t", "\n", "\r"}

RECURSIVE LStrip(_)
LStrip(x) == IF x # <<>> /\ IsSpace(Head(x)) THEN LStrip(Tail(x)) ELSE x

RECURSIVE RStrip(_)
RStrip(x) ==
    IF x # <<>> /\ IsSpace(x[Len(x)]) THEN RStrip(SubSeq(x, 1, Len(x) - 1)) ELSE x

\* str.strip()
Strip(x) == RStrip(LStrip(x))

\* str(value) for the values _cast_boolean is given
Str(v) ==
    IF v.t = "bool" THEN (IF v.b THEN <<"T","r","u","e">> ELSE <<"F","a","l","s","e">>)
    ELSE v.s

-----------------------------------------------------------------------------
(* strtobool and _cast_boolean *)

TRUE_VALUES ==
    {<<"y">>, <<"y","e","s">>, <<"t">>, <<"t","r","u","e">>, <<"o","n">>, <<"1">>}
FALSE_VALUES ==
    {<<"n">>, <<"n","o">>, <<"f">>, <<"f","a","l","s","e">>, <<"o","f","f">>, <<"0">>}

\* strtobool without value.lower()
strtobool_no_lower(value) ==
    IF value.t = "bool" THEN Return(value, <<>>)
    ELSE IF value.s \in TRUE_VALUES THEN Return(PyBool(TRUE), <<>>)
    ELSE IF value.s \in FALSE_VALUES THEN Return(PyBool(FALSE), <<>>)
    ELSE Raise("ValueError", <<>>)

strtobool(value) ==
    IF value.t = "bool" THEN Return(value, <<>>)
    ELSE LET v == Lower(value.s)
         IN IF v \in TRUE_VALUES THEN Return(PyBool(TRUE), <<>>)
            ELSE IF v \in FALSE_VALUES THEN Return(PyBool(FALSE), <<>>)
            ELSE Raise("ValueError", <<>>)

_cast_boolean(value) ==
    LET v == Str(value)
    IN IF v = <<>> THEN Return(PyBool(v # <<>>), <<>>) ELSE strtobool(PyStr(v))

-----------------------------------------------------------------------------
(* Repositories.  A repository is a record                                 *)
(*   kind       "Empty", "Ini", "Env" or "Secret"                          *)
(*   data       Env, Secret: self.data; Ini: the options of section        *)
(*              'settings' as the parser holds them (names lower-cased,    *)
(*              values after interpolation)                                *)
(*   hasSection Ini: whether the file has a [settings] section             *)
(*   source     the file it was built from: [d, name]                      *)
(***************************************************************************)

EmptyDict == <<>>
Put(d, k, v) == [x \in (DOMAIN d) \cup {k} |-> IF x = k THEN v ELSE d[x]]

NoSource == [d |-> -1, name |-> ""]

RepositoryEmpty(source) ==
    [kind |-> "Empty", data |-> EmptyDict, hasSection |-> FALSE, source |-> source]

\* ConfigParser.optionxform: option names are lower-cased
optionxform(key) == Lower(key)

RepositoryIni(source, hasSection, options) ==
    [kind |-> "Ini", data |-> options, hasSection |-> hasSection, source |-> source]

RepositorySecret(source, files) ==
    [kind |-> "Secret", data |-> files, hasSection |-> FALSE, source |-> source]

\* index of the first c in x, 0 when there is none ('=' in line, line.split('=', 1))
Find(x, c) ==
    IF \E i \in 1..Len(x) : x[i] = c
    THEN CHOOSE i \in 1..Len(x) : x[i] = c /\ \A j \in 1..(i - 1) : x[j] # c
    ELSE 0

\* `for line in file_`: the text cut after each newline
RECURSIVE FileLines(_)
FileLines(text) ==
    IF text = <<>> THEN <<>>
    ELSE LET nl == Find(text, "\n")
         IN IF nl = 0 THEN <<text>>
            ELSE <<SubSeq(text, 1, nl)>> \o FileLines(SubSeq(text, nl + 1, Len(text)))

\* the quote test of RepositoryEnv.__init__ and v[1:-1]
Unquote(v) ==
    IF Len(v) >= 2 /\ (   (v[1] = "'" /\ v[Len(v)] = "'")
                        \/ (v[1] = "\"" /\ v[Len(v)] = "\""))
    THEN SubSeq(v, 2, Len(v) - 1)
    ELSE v

\* the last c in x, 0 when there is none
FindLast(x, c) ==
    IF \E i \in 1..Len(x) : x[i] = c
    THEN CHOOSE i \in 1..Len(x) : x[i] = c /\ \A j \in (i + 1)..Len(x) : x[j] # c
    ELSE 0

\* the loop body splitting at the last '=' (line.rsplit('=', 1))
EnvLine_last_eq(data, rawline) ==
    LET line == Strip(rawline)
    IN IF line = <<>> \/ Head(line) = "#" \/ Find(line, "=") = 0 THEN data
       ELSE LET eq == FindLast(line, "=")
                k == Strip(SubSeq(line, 1, eq - 1))
                v == Strip(SubSeq(line, eq + 1, Len(line)))
            IN Put(data, k, Unquote(v))

\* the body of the loop of RepositoryEnv.__init__ for one line
EnvLine(data, rawline) ==
    LET line == Strip(rawline)
    IN IF line = <<>> \/ Head(line) = "#" \/ Find(line, "=") = 0 THEN data
       ELSE LET eq == Find(line, "=")
                k == Strip(SubSeq(line, 1, eq - 1))
                v == Strip(SubSeq(line, eq + 1, Len(line)))
            IN Put(data, k, Unquote(v))

RECURSIVE EnvLines(_, _)
EnvLines(data, lines) ==
    IF lines = <<>> THEN data
    ELSE EnvLines(EnvLine(data, Head(lines)), Tail(lines))

RepositoryEnv(source, text) ==
    [kind |-> "Env", data |-> EnvLines(EmptyDict, FileLines(text)),
     hasSection |-> FALSE, source |-> source]

\* __contains__ of each variant (env is os.environ)
RepositoryEmpty_contains(repo, env, key) == FALSE

\* RepositoryIni.__contains__ asking the parser alone
RepositoryIni_contains_store_only(repo, env, key) ==
    repo.hasSection /\ optionxform(key) \in DOMAIN repo.data

RepositoryIni_contains(repo, env, key) ==
    key \in DOMAIN env \/ (repo.hasSection /\ optionxform(key) \in DOMAIN repo.data)

RepositoryEnv_contains(repo, env, key) ==
    key \in DOMAIN env \/ key \in DOMAIN repo.data

RepositorySecret_contains(repo, env, key) ==
    key \in DOMAIN env \/ key \in DOMAIN repo.data

Contains(repo, env, key) ==
    CASE repo.kind = "Empty" -> RepositoryEmpty_contains(repo, env, key)
      [] repo.kind = "Ini" -> RepositoryIni_contains(repo, env, key)
      [] repo.kind = "Env" -> RepositoryEnv_contains(repo, env, key)
      [] repo.kind = "Secret" -> RepositorySecret_contains(repo, env, key)

\* __getitem__ of each variant
RepositoryEmpty_getitem(repo, key) == Raise("NotImplementedError", <<>>)

\* parser.get raises NoSectionError without a [settings] section, and
\* NoOptionError, turned into KeyError, without the option
RepositoryIni_getitem(repo, key) ==
    IF ~repo.hasSection THEN Raise("NoSectionError", <<>>)
    ELSE IF optionxform(key) \in DOMAIN repo.data
         THEN Return(PyStr(repo.data[optionxform(key)]), <<>>)
         ELSE Raise("KeyError", <<>>)

\* RepositoryEnv.__getitem__ as self.data.get(key, '')
RepositoryEnv_getitem_lenient(repo, key) ==
    IF key \in DOMAIN repo.data THEN Return(PyStr(repo.data[key]), <<>>)
    ELSE Return(PyStr(<<>>), <<>>)

RepositoryEnv_getitem(repo, key) ==
    IF key \in DOMAIN repo.data THEN Return(PyStr(repo.data[key]), <<>>)
    ELSE Raise("KeyError", <<>>)

RepositorySecret_getitem(repo, key) ==
    IF key \in DOMAIN repo.data THEN Return(PyStr(repo.data[key]), <<>>)
    ELSE Raise("KeyError", <<>>)

GetItem(repo, key) ==
    CASE repo.kind = "Empty" -> RepositoryEmpty_getitem(repo, key)
      [] repo.kind = "Ini" -> RepositoryIni_getitem(repo, key)
      [] repo.kind = "Env" -> RepositoryEnv_getitem(repo, key)
      [] repo.kind = "Secret" -> RepositorySecret_getitem(repo, key)

-----------------------------------------------------------------------------
(* Config *)

None == [t |-> "NoneType", repository |-> RepositoryEmpty(NoSource)]
Config(repository) == [t |-> "Config", repository |-> repository]

\* the casts a caller passes: none (undefined), bool, or a callable of its own
Casts == {"undefined", "bool", "callable"}

\* lines 137-146 of Config.get: the cast of the raw value, a str
ApplyCast(value, cast) ==
    IF cast = "undefined" THEN Return(value, <<>>)
    ELSE IF cast = "bool"
         THEN LET r == _cast_boolean(value)
              IN [r EXCEPT !.calls = <<[f |-> "_cast_boolean", arg |-> value]>>]
         ELSE Return(PyCasted(value.s), <<[f |-> "callable", arg |-> value]>>)

\* Config.get asking the repository before os.environ
ConfigGet_repository_first(cfg, env, option, default, cast) ==
    IF Contains(cfg.repository, EmptyDict, option)
    THEN LET r == GetItem(cfg.repository, option)
         IN IF r.kind = "raise" THEN r ELSE ApplyCast(r.val, cast)
    ELSE IF option \in DOMAIN env THEN ApplyCast(PyStr(env[option]), cast)
         ELSE IF default.t = "Undefined" THEN Raise("UndefinedValueError", <<>>)
              ELSE IF default.t # "str" THEN Return(default, <<>>)
                   ELSE ApplyCast(default, cast)

\* Config.get without the early return of a default that is not a str
ConfigGet_cast_default(cfg, env, option, default, cast) ==
    IF option \in DOMAIN env THEN ApplyCast(PyStr(env[option]), cast)
    ELSE IF Contains(cfg.repository, env, option)
         THEN LET r == GetItem(cfg.repository, option)
              IN IF r.kind = "raise" THEN r ELSE ApplyCast(r.val, cast)
         ELSE IF default.t = "Undefined" THEN Raise("UndefinedValueError", <<>>)
              ELSE ApplyCast(default, cast)

\* Config.get (and Config.__call__)
ConfigGet(cfg, env, option, default, cast) ==
    IF option \in DOMAIN env THEN ApplyCast(PyStr(env[option]), cast)
    ELSE IF Contains(cfg.repository, env, option)
         THEN LET r == GetItem(cfg.repository, option)
              IN IF r.kind = "raise" THEN r ELSE ApplyCast(r.val, cast)
         ELSE IF default.t = "Undefined" THEN Raise("UndefinedValueError", <<>>)
              ELSE IF default.t # "str" THEN Return(default, <<>>)
                   ELSE ApplyCast(default, cast)

-----------------------------------------------------------------------------
(* The record of the last operation *)

NoOrder == <<>>

Op(name, key, default, cast, out) ==
    [op |-> name, key |-> key, default |-> default, cast |-> cast, out |-> out,
     searched |-> FALSE, searchExc |-> "", found |-> NoSource, visited |-> NoOrder]

NoOp == Op("none", <<>>, undefined, "undefined", Return(PyNone, <<>>))

-----------------------------------------------------------------------------
(* The Resolver and the repositories used directly *)

Keys == {<<"K">>, <<"k">>, <<"q">>}
EnvValues == {<<>>, <<"O","n">>}
RepoValues == {<<>>, <<"x">>}
Defaults ==
    {undefined, PyNone, PyBool(FALSE), PyBool(TRUE), PyStr(<<>>), PyStr(<<"n","o">>),
     PyStr(<<"N","o","t","B","o","o","l">>)}

DictsOver(keys, values) == UNION {[S -> values] : S \in SUBSET keys}

SettingsIni == [d |-> 0, name |-> "settings.ini"]
DotEnv == [d |-> 0, name |-> ".env"]
SecretsDir == [d |-> 0, name |-> "secrets"]

\* environment files of the Resolver's repositories
SampleEnvTexts ==
    { <<"K","=","x">>,
      <<"#","K","=","x","\n","q","=">>,
      <<"K","=","'","x","'","\n","k","="," ","x","\n">> }

FileRepositories ==
    {RepositoryEmpty(NoSource), RepositoryIni(SettingsIni, FALSE, EmptyDict)}
    \cup {RepositoryIni(SettingsIni, TRUE, o) : o \in DictsOver({<<"k">>, <<"q">>}, RepoValues)}
    \cup {RepositorySecret(SecretsDir, f) : f \in DictsOver({<<"K">>, <<"q">>}, {<<"x">>})}

NoFs == [d \in {0} |-> [n \in {"settings.ini", ".env"} |-> "absent"]]

InitResolver ==
    /\ environ \in DictsOver(Keys, EnvValues)
    /\ \/ \E r \in FileRepositories : config = Config(r) /\ file = <<>>
       \/ \E t \in SampleEnvTexts : config = Config(RepositoryEnv(DotEnv, t)) /\ file = t
    /\ search_path = 0
    /\ fs = NoFs
    /\ searches = 0
    /\ csv_value = PyNone
    /\ last = NoOp

\* config.get(option, default, cast), config(option, default, cast)
Get(option, default, cast) ==
    /\ config.t = "Config"
    /\ last' = Op("get", option, default, cast,
                  ConfigGet(config, environ, option, default, cast))
    /\ UNCHANGED <<environ, config, search_path, fs, file, searches, csv_value>>

\* config.repository[key]
RepositoryGet(key) ==
    /\ config.t = "Config"
    /\ last' = Op("getitem", key, undefined, "undefined", GetItem(config.repository, key))
    /\ UNCHANGED <<environ, config, search_path, fs, file, searches, csv_value>>

\* key in config.repository
RepositoryContains(key) ==
    /\ config.t = "Config"
    /\ last' = Op("contains", key, undefined, "undefined",
                  Return(PyBool(Contains(config.repository, environ, key)), <<>>))
    /\ UNCHANGED <<environ, config, search_path, fs, file, searches, csv_value>>

\* os.environ[key] = value, by the caller
SetEnv(key, value) ==
    /\ ~(key \in DOMAIN environ /\ environ[key] = value)
    /\ environ' = Put(environ, key, value)
    /\ last' = NoOp
    /\ UNCHANGED <<config, search_path, fs, file, searches, csv_value>>

\* del os.environ[key], by the caller
DelEnv(key) ==
    /\ key \in DOMAIN environ
    /\ environ' = [x \in (DOMAIN environ) \ {key} |-> environ[x]]
    /\ last' = NoOp
    /\ UNCHANGED <<config, search_path, fs, file, searches, csv_value>>

Next ==
    \/ \E k \in Keys, d \in Defaults, c \in Casts : Get(k, d, c)
    \/ \E k \in Keys : RepositoryGet(k)
    \/ \E k \in Keys : RepositoryContains(k)
    \/ \E k \in Keys, v \in EnvValues : SetEnv(k, v)
    \/ \E k \in Keys : DelEnv(k)

Spec == InitResolver /\ [][Next]_vars

-----------------------------------------------------------------------------
(* Properties of the Resolver and of the repositories *)

\* the key under which a repository's own store holds `key`
StoreKey(repo, key) == IF repo.kind = "Ini" THEN Lower(key) ELSE key
\* the repository's own store defines `key`
StoreHas(repo, key) == \E x \in DOMAIN repo.data : x = StoreKey(repo, key)

\* C1: Config.get takes the raw value from the first of environment,
\* repository, default that has the key (returned as it is without a cast,
\* handed to the cast otherwise), and raises UndefinedValueError exactly when
\* the key is in neither the environment nor the repository and no default
\* was supplied.
C1_Precedence ==
    last.op = "get" =>
        LET k == last.key
            repo == config.repository
            supplied == last.default.t # "Undefined"
            nowhere == k \notin DOMAIN environ /\ ~StoreHas(repo, k)
            raw == IF k \in DOMAIN environ THEN PyStr(environ[k])
                   ELSE IF StoreHas(repo, k) THEN PyStr(repo.data[StoreKey(repo, k)])
                   ELSE last.default
            undefinedError == last.out.kind = "raise" /\ last.out.exc = "UndefinedValueError"
        IN /\ undefinedError <=> (nowhere /\ ~supplied)
           /\ (~undefinedError /\ last.cast = "undefined") => last.out = Return(raw, <<>>)
           /\ (~undefinedError /\ last.cast # "undefined" /\ raw.t = "str") =>
                  /\ Len(last.out.calls) = 1
                  /\ last.out.calls[1].arg = raw

\* C1 witness: a key the environment and the repository both define was
\* requested and the environment's value came back
C1_Witness ==
    /\ last.op = "get" /\ last.cast = "undefined"
    /\ last.key \in DOMAIN environ
    /\ StoreHas(config.repository, last.key)
    /\ config.repository.data[StoreKey(config.repository, last.key)] # environ[last.key]
    /\ last.out = Return(PyStr(environ[last.key]), <<>>)

\* C2: for a key in neither the environment nor the repository, a default
\* that is not a str is returned unchanged and no cast is invoked, whatever
\* the cast; a str default is what the cast is invoked on.
C2_NonStringDefault ==
    (/\ last.op = "get"
     /\ last.key \notin DOMAIN environ
     /\ ~StoreHas(config.repository, last.key)
     /\ last.default.t # "Undefined") =>
        IF last.default.t # "str"
        THEN last.out = Return(last.default, <<>>)
        ELSE last.cast # "undefined" =>
                 /\ Len(last.out.calls) = 1
                 /\ last.out.calls[1].arg = last.default

\* C2 witness: default=False with cast=bool came back as False, uncast
C2_Witness ==
    /\ last.op = "get" /\ last.cast = "bool"
    /\ last.key \notin DOMAIN environ
    /\ ~StoreHas(config.repository, last.key)
    /\ last.default = PyBool(FALSE)
    /\ last.out = Return(PyBool(FALSE), <<>>)

C5_Original ==
    (last.op = "contains" /\ last.key \in DOMAIN environ) =>
        last.out = Return(PyBool(TRUE), <<>>)

\* C5 amended: `key in repository` is true for EnvFile, IniFile and SecretDir
\* when the environment has the key, whatever the store holds; Empty reports
\* false for every key.
C5_Amended ==
    last.op = "contains" =>
        /\ (config.repository.kind # "Empty" /\ last.key \in DOMAIN environ) =>
               last.out = Return(PyBool(TRUE), <<>>)
        /\ config.repository.kind = "Empty" => last.out = Return(PyBool(FALSE), <<>>)

\* C5 witness: an IniFile whose store lacks the key reported it present
\* because the environment has it
C5_Witness ==
    /\ last.op = "contains"
    /\ config.repository.kind = "Ini"
    /\ last.key \in DOMAIN environ
    /\ ~StoreHas(config.repository, last.key)
    /\ last.out = Return(PyBool(TRUE), <<>>)

-----------------------------------------------------------------------------
(* The boolean cast: Config.get(key, cast=bool) over many raw strings *)

\* every spelling of the word w in upper and lower case
UpperChar(c) ==
    IF \E j \in 1..26 : LowerCase[j] = c
    THEN UpperCase[CHOOSE j \in 1..26 : LowerCase[j] = c]
    ELSE c

CaseVariants(w) ==
    {[i \in 1..Len(w) |-> IF up[i] THEN UpperChar(w[i]) ELSE w[i]] :
        up \in [1..Len(w) -> BOOLEAN]}

RawAlphabet == {"y", "N", "o", "n", "t", "F", "1", "0", " ", "x"}

\* the raw strings: every spelling of the vocabulary, every short string,
\* and words with whitespace around them
RawStrings ==
    UNION {CaseVariants(w) : w \in TRUE_VALUES \cup FALSE_VALUES}
    \cup UNION {[1..n -> RawAlphabet] : n \in 0..MaxRawLen}
    \cup {<<" ","y","e","s">>, <<"o","n"," ">>, <<"t","r","u","e","\n">>,
          <<" ","0">>, <<"f","a","l","s","e"," ">>, <<"T","r","u","e","s">>}

InitBool ==
    /\ \E raw \in RawStrings : environ = Put(EmptyDict, <<"K">>, raw)
    /\ config = Config(RepositoryEmpty(NoSource))
    /\ file = <<>>
    /\ search_path = 0
    /\ fs = NoFs
    /\ searches = 0
    /\ csv_value = PyNone
    /\ last = NoOp

\* _cast_boolean applied to what the last cast returned
Recast ==
    /\ last.op = "get" /\ last.out.kind = "return"
    /\ last' = Op("recast", <<>>, last.out.val, "bool", _cast_boolean(last.out.val))
    /\ UNCHANGED <<environ, config, search_path, fs, file, searches, csv_value>>

NextBool ==
    \/ Get(<<"K">>, undefined, "bool")
    \/ Recast

SpecBool == InitBool /\ [][NextBool]_vars

\* the vocabulary as the claim lists it
C3_TrueWords ==
    {<<"y">>, <<"y","e","s">>, <<"t">>, <<"t","r","u","e">>, <<"o","n">>, <<"1">>}
C3_FalseWords ==
    {<<"n">>, <<"n","o">>, <<"f">>, <<"f","a","l","s","e">>, <<"o","f","f">>, <<"0">>}

\* x is the word w up to the case of its letters
C3_SameWord(x, w) ==
    /\ Len(x) = Len(w)
    /\ \A i \in 1..Len(w) :
          \/ x[i] = w[i]
          \/ \E j \in 1..26 : LowerCase[j] = w[i] /\ UpperCase[j] = x[i]

\* C3: with cast=bool a raw string that is, up to case, one of y, yes, t,
\* true, on, 1 gives True; one of n, no, f, false, off, 0 gives False; the
\* empty string gives False; every other raw string raises ValueError; and
\* the cast applied to its own result returns that result.
C3_BoolRule ==
    /\ (last.op = "get" /\ last.cast = "bool" /\ last.key \in DOMAIN environ) =>
          LET raw == environ[last.key]
          IN IF \E w \in C3_TrueWords : C3_SameWord(raw, w)
             THEN last.out.kind = "return" /\ last.out.val = PyBool(TRUE)
             ELSE IF raw = <<>> \/ \E w \in C3_FalseWords : C3_SameWord(raw, w)
             THEN last.out.kind = "return" /\ last.out.val = PyBool(FALSE)
             ELSE last.out.kind = "raise" /\ last.out.exc = "ValueError"
    /\ last.op = "recast" => last.out = Return(last.default, <<>>)

\* C3 witness: a recognised word in mixed case was cast to True and the
\* cast of that True gave True again
C3_Witness ==
    /\ environ[<<"K">>] = <<"Y","e","S">>
    /\ last.op = "recast"
    /\ last.default = PyBool(TRUE)
    /\ last.out = Return(PyBool(TRUE), <<>>)

-----------------------------------------------------------------------------
(* The EnvFile repository: RepositoryEnv built from an environment file *)

TextAlphabet == {"a", "=", "#", " ", "'", "\"", "\n"}

KEY == <<"K","E","Y">>
value == <<"v","a","l","u","e">>

\* longer environment files: the three spellings of KEY=value, a repeated
\* key, quotes inside quotes, padding, a comment, a tab
LongTexts ==
    { KEY \o <<"=">> \o value,
      KEY \o <<"=", "\"">> \o value \o <<"\"">>,
      KEY \o <<"=", "'">> \o value \o <<"'", "\n">>,
      <<"a","=","a","\n","a","=","'","\"","'","\n">>,
      <<" ","a"," ","=","\t","'"," ","a","=","'","'"," ","\n","#","a","=","a">>,
      <<"a","=","'","a","\"","\n","a","a","\n","a","=","=","\"","\"","\"">> }

EnvTexts == UNION {[1..n -> TextAlphabet] : n \in 0..MaxTextLen} \cup LongTexts

EnvKeys == {KEY, <<"a">>, <<>>}

InitEnvFile ==
    /\ file \in EnvTexts
    /\ config = None
    /\ environ = EmptyDict
    /\ search_path = 0
    /\ fs = NoFs
    /\ searches = 0
    /\ csv_value = PyNone
    /\ last = NoOp

\* Config(RepositoryEnv(source)) over the file
NewRepositoryEnv ==
    /\ config.t = "NoneType"
    /\ config' = Config(RepositoryEnv(DotEnv, file))
    /\ last' = Op("RepositoryEnv", <<>>, undefined, "undefined", Return(PyNone, <<>>))
    /\ UNCHANGED <<environ, search_path, fs, file, searches, csv_value>>

NextEnvFile ==
    \/ NewRepositoryEnv
    \/ \E k \in EnvKeys : Get(k, undefined, "undefined")

SpecEnvFile == InitEnvFile /\ [][NextEnvFile]_vars

\* x without the whitespace at its two ends
C10_Trimmed(x) ==
    LET solid == {i \in 1..Len(x) : ~IsSpace(x[i])}
    IN IF solid = {} THEN <<>>
       ELSE SubSeq(x, CHOOSE i \in solid : \A j \in solid : i <= j,
                      CHOOSE i \in solid : \A j \in solid : j <= i)

\* the position of the first '=' of x
C10_FirstEq(x) == CHOOSE i \in 1..Len(x) : x[i] = "=" /\ \A j \in 1..Len(x) : x[j] = "=" => i <= j

\* a line that defines a key
C10_Defines(line) ==
    LET t == C10_Trimmed(line)
    IN t # <<>> /\ t[1] # "#" /\ \E i \in 1..Len(t) : t[i] = "="

C10_Key(line) ==
    LET t == C10_Trimmed(line) IN C10_Trimmed(SubSeq(t, 1, C10_FirstEq(t) - 1))

C10_Value(line) ==
    LET t == C10_Trimmed(line)
        v == C10_Trimmed(SubSeq(t, C10_FirstEq(t) + 1, Len(t)))
    IN IF Len(v) >= 2 /\ v[1] = v[Len(v)] /\ v[1] \in {"'", "\""}
       THEN SubSeq(v, 2, Len(v) - 1)
       ELSE v

\* C10: the EnvFile store holds exactly the keys of the lines that, trimmed,
\* are non-empty, do not start with '#' and contain '='; key and value are
\* the trimmed texts before and after the first '=', the value without one
\* outer pair of equal quotes when it has one, otherwise unchanged; the last
\* line of a key decides; KEY=value, KEY="value" and KEY='value' read back
\* as value.
C10_EnvStore ==
    (config.t = "Config" /\ config.repository.kind = "Env") =>
        LET lines == FileLines(file)
            data == config.repository.data
            defining == {i \in 1..Len(lines) : C10_Defines(lines[i])}
        IN /\ DOMAIN data = {C10_Key(lines[i]) : i \in defining}
           /\ \A i \in defining :
                 (\A j \in defining : C10_Key(lines[j]) = C10_Key(lines[i]) => j <= i)
                    => data[C10_Key(lines[i])] = C10_Value(lines[i])
           /\ (/\ last.op = "get" /\ last.key = KEY
               /\ \E q \in {<<>>, <<"'">>, <<"\"">>} :
                     Strip(file) = KEY \o <<"=">> \o q \o value \o q)
                 => last.out = Return(PyStr(value), <<>>)

\* C10 witness: KEY='value' was read back as value
C10_Witness ==
    /\ file = KEY \o <<"=", "'">> \o value \o <<"'", "\n">>
    /\ last.op = "get" /\ last.key = KEY
    /\ last.out = Return(PyStr(value), <<>>)

\* C10 witness of the repeated key: the later line's value, a lone double
\* quote left from '"', is the one stored
C10_WitnessRepeated ==
    /\ file = <<"a","=","a","\n","a","=","'","\"","'","\n">>
    /\ last.op = "get" /\ last.key = <<"a">>
    /\ last.out = Return(PyStr(<<"\"">>), <<>>)

-----------------------------------------------------------------------------
(* The Locator: AutoConfig.  A directory is its depth below the filesystem *)
(* root (0 is the root); fs[d][name] says what (d / name).is_file() does:  *)
(* "file" (True), "absent" (False: no such file, or not a regular file) or *)
(* "error" (it raises, as on a permission denial).                         *)
(***************************************************************************)

\* SUPPORTED with .env ahead of settings.ini
SUPPORTED_env_first == <<".env", "settings.ini">>

SUPPORTED == <<"settings.ini", ".env">>
SupportedNames == {SUPPORTED[i] : i \in 1..Len(SUPPORTED)}
FileStatus == {"absent", "file", "error"}

Path(d) == [t |-> "Path", d |-> d]
\* Path.parent: the root is its own parent
Parent(path) == Path(IF path.d = 0 THEN 0 ELSE path.d - 1)
\* os.path.normcase(path) is os.fspath(path): a str
normcase(path) == [t |-> "str", d |-> path.d]
\* Path(os.sep).resolve()
root_dir == Path(0)

SearchResult(kind, exc, found, visited) ==
    [kind |-> kind, exc |-> exc, file |-> found, visited |-> visited]

\* the loop over SUPPORTED from its i-th name on, in directory d
RECURSIVE FirstSupported(_, _, _)
FirstSupported(f, d, i) ==
    IF i > Len(SUPPORTED) THEN [kind |-> "none", name |-> ""]
    ELSE IF f[d][SUPPORTED[i]] = "error" THEN [kind |-> "raise", name |-> ""]
    ELSE IF f[d][SUPPORTED[i]] = "file" THEN [kind |-> "found", name |-> SUPPORTED[i]]
    ELSE FirstSupported(f, d, i + 1)

\* AutoConfig._find_file; frames counts the stacked calls
RECURSIVE _find_file(_, _, _)
_find_file(f, path, frames) ==
    IF frames > RecursionLimit
    THEN SearchResult("raise", "RecursionError", NoSource, <<>>)
    ELSE LET here == FirstSupported(f, path.d, 1)
             parent == Parent(path)
         IN IF here.kind = "raise"
            THEN SearchResult("raise", "Exception", NoSource, <<path.d>>)
            ELSE IF here.kind = "found"
            THEN SearchResult("return", "", [d |-> path.d, name |-> here.name], <<path.d>>)
            ELSE IF normcase(parent) # root_dir
            THEN LET up == _find_file(f, parent, frames + 1)
                 IN [up EXCEPT !.visited = <<path.d>> \o @]
            ELSE SearchResult("return", "", NoSource, <<path.d>>)

\* what the file found holds, as far as the repository built from it goes:
\* ok is whether it can be opened and parsed
FileContents ==
    { [ok |-> FALSE, text |-> <<>>, hasSection |-> FALSE, options |-> EmptyDict],
      [ok |-> TRUE, text |-> <<"q","=","x">>, hasSection |-> TRUE,
       options |-> Put(EmptyDict, <<"q">>, <<"x">>)] }

LoadResult(kind, exc, cfg, search, text) ==
    [kind |-> kind, exc |-> exc, config |-> cfg, search |-> search, text |-> text]

\* Build with RepositoryEnv, not RepositoryEmpty, as the class of an unknown name
Build_no_fallback(search, filename, content) ==
    IF filename.name = "settings.ini" /\ content.ok
    THEN LoadResult("ok", "", Config(RepositoryIni(filename, content.hasSection,
                                                   content.options)), search, <<>>)
    ELSE IF filename.name = ".env" /\ content.ok
    THEN LoadResult("ok", "", Config(RepositoryEnv(filename, content.text)),
                    search, content.text)
    ELSE LoadResult("raise", "ConstructionError", None, search, <<>>)

\* Repository(filename, encoding=...) for the class SUPPORTED gives the name
Build(search, filename, content) ==
    IF filename.name = "settings.ini"
    THEN IF content.ok
         THEN LoadResult("ok", "", Config(RepositoryIni(filename, content.hasSection,
                                                        content.options)), search, <<>>)
         ELSE LoadResult("raise", "ConstructionError", None, search, <<>>)
    ELSE IF filename.name = ".env"
    THEN IF content.ok
         THEN LoadResult("ok", "", Config(RepositoryEnv(filename, content.text)),
                         search, content.text)
         ELSE LoadResult("raise", "ConstructionError", None, search, <<>>)
    ELSE LoadResult("ok", "", Config(RepositoryEmpty(NoSource)), search, <<>>)

\* AutoConfig._load without the try/except around the search
_load_no_except(f, path, content) ==
    LET search == _find_file(f, Path(path), 1)
    IN IF search.kind = "raise" THEN LoadResult("raise", search.exc, None, search, <<>>)
       ELSE Build(search, search.file, content)

\* AutoConfig._load
_load(f, path, content) ==
    LET search == _find_file(f, Path(path), 1)
        filename == IF search.kind = "raise" THEN NoSource ELSE search.file
    IN Build(search, filename, content)

CallOp(option, default, cast, out, load) ==
    [Op("call", option, default, cast, out) EXCEPT
        !.searched = TRUE, !.searchExc = load.search.exc,
        !.found = load.search.file, !.visited = load.search.visited]

\* AutoConfig.__call__ that loads on every call
AutoConfigCall_always_load(option, default, cast, content) ==
    /\ searches < MaxSearches
    /\ LET load == _load(fs, search_path, content)
       IN /\ searches' = searches + 1
          /\ IF load.kind = "raise"
             THEN /\ config' = config
                  /\ file' = file
                  /\ last' = CallOp(option, default, cast, Raise(load.exc, <<>>), load)
             ELSE /\ config' = load.config
                  /\ file' = load.text
                  /\ last' = CallOp(option, default, cast,
                                    ConfigGet(load.config, environ, option, default, cast),
                                    load)
    /\ UNCHANGED <<environ, search_path, fs, csv_value>>

\* AutoConfig.__call__: config(option, default, cast)
AutoConfigCall(option, default, cast, content) ==
    /\ IF config.t = "NoneType"
       THEN /\ searches < MaxSearches
            /\ LET load == _load(fs, search_path, content)
               IN /\ searches' = searches + 1
                  /\ IF load.kind = "raise"
                     THEN /\ config' = config
                          /\ file' = file
                          /\ last' = CallOp(option, default, cast,
                                            Raise(load.exc, <<>>), load)
                     ELSE /\ config' = load.config
                          /\ file' = load.text
                          /\ last' = CallOp(option, default, cast,
                                            ConfigGet(load.config, environ, option,
                                                      default, cast), load)
       ELSE /\ last' = Op("call", option, default, cast,
                          ConfigGet(config, environ, option, default, cast))
            /\ UNCHANGED <<config, file, searches>>
    /\ UNCHANGED <<environ, search_path, fs, csv_value>>

\* a file is created (status "file") or removed ("absent") between two calls
FsChange(d, name, status) ==
    /\ d \in DOMAIN fs
    /\ fs[d][name] # status
    /\ fs' = [fs EXCEPT ![d][name] = status]
    /\ last' = NoOp
    /\ UNCHANGED <<environ, config, search_path, file, searches, csv_value>>

KeyFallback == <<"K">>

\* the calls made: (option, default, cast)
CallArgs ==
    { <<KeyFallback, undefined, "bool">>,
      <<(<<"q">>), undefined, "undefined">>,
      <<(<<"q">>), PyStr(<<"n","o">>), "bool">> }

\* AutoConfig(search_path): nothing is searched or built
InitLocator ==
    /\ environ = Put(EmptyDict, KeyFallback, <<"O","n">>)
    /\ config = None
    /\ search_path \in 0..MaxDepth
    /\ fs \in [0..search_path -> [SupportedNames -> FileStatus]]
    /\ file = <<>>
    /\ searches = 0
    /\ csv_value = PyNone
    /\ last = NoOp

\* the calls of one AutoConfig over a file system that stays as it is
NextLocator ==
    \E a \in CallArgs, content \in FileContents : AutoConfigCall(a[1], a[2], a[3], content)

SpecLocator == InitLocator /\ [][NextLocator]_vars

\* the life of one AutoConfig while files come and go (every existence
\* check answers)
InitLifecycle ==
    /\ InitLocator
    /\ \A d \in DOMAIN fs, n \in SupportedNames : fs[d][n] # "error"

NextLifecycle ==
    \/ \E a \in CallArgs, content \in FileContents : AutoConfigCall(a[1], a[2], a[3], content)
    \/ \E d \in 0..MaxDepth, n \in SupportedNames, st \in {"absent", "file"} :
          FsChange(d, n, st)

SpecLifecycle == InitLifecycle /\ [][NextLifecycle]_vars

-----------------------------------------------------------------------------
(* Properties of the Locator *)

C6_HasFile(d) == \E n \in SupportedNames : fs[d][n] = "file"

\* the directory nearest to the start, on the way up, that holds a supported file
C6_Nearest ==
    CHOOSE d \in DOMAIN fs : C6_HasFile(d) /\ \A e \in DOMAIN fs : C6_HasFile(e) => e <= d

C6_Choice ==
    [d |-> C6_Nearest,
     name |-> IF fs[C6_Nearest]["settings.ini"] = "file" THEN "settings.ini" ELSE ".env"]

\* no existence check made before the one of the chosen file raises
C6_NoErrorBefore ==
    \A d \in DOMAIN fs, n \in SupportedNames :
        fs[d][n] = "error" => (d < C6_Nearest \/ (d = C6_Nearest /\ n = ".env"))

\* C6: when the search runs (and no existence check raises on its way), it
\* selects the supported file of the nearest directory from the start
\* upward that holds one, the start and the root included, settings.ini
\* before .env, and the repository built over it is the variant of that
\* file name.
C6_NearestFile ==
    (/\ last.op = "call" /\ last.searched
     /\ \E d \in DOMAIN fs : C6_HasFile(d)
     /\ C6_NoErrorBefore) =>
        /\ last.found = C6_Choice
        /\ last.out.exc # "ConstructionError" =>
              /\ config.t = "Config"
              /\ config.repository.source = C6_Choice
              /\ config.repository.kind =
                    (IF C6_Choice.name = "settings.ini" THEN "Ini" ELSE "Env")

\* C6 witness: the start directory holds nothing, its parent holds .env
\* only, the root holds settings.ini, and the EnvFile repository over the
\* parent's .env was built
C6_Witness ==
    /\ last.op = "call" /\ last.searched
    /\ search_path = 2
    /\ \A n \in SupportedNames : fs[2][n] = "absent"
    /\ fs[1][".env"] = "file" /\ fs[1]["settings.ini"] = "absent"
    /\ fs[0]["settings.ini"] = "file"
    /\ config.t = "Config"
    /\ config.repository.kind = "Env"
    /\ config.repository.source = [d |-> 1, name |-> ".env"]

\* C6 witness of the file names' order: the start directory holds both
\* files and the IniFile repository was built
C6_WitnessBoth ==
    /\ last.op = "call" /\ last.searched
    /\ \A n \in SupportedNames : fs[search_path][n] = "file"
    /\ config.t = "Config"
    /\ config.repository.kind = "Ini"

\* the outcome is what the environment and the default alone give
C7_FromEnvironOrDefault ==
    IF last.key \in DOMAIN environ
    THEN /\ last.cast = "undefined" => last.out = Return(PyStr(environ[last.key]), <<>>)
         /\ (last.cast = "bool" /\ environ[last.key] = <<"O","n">>) =>
                (last.out.kind = "return" /\ last.out.val = PyBool(TRUE))
    ELSE IF last.default.t = "Undefined"
    THEN last.out = Raise("UndefinedValueError", <<>>)
    ELSE /\ last.cast = "undefined" => last.out = Return(last.default, <<>>)
         /\ (last.cast = "bool" /\ last.default = PyStr(<<"n","o">>)) =>
                (last.out.kind = "return" /\ last.out.val = PyBool(FALSE))

\* C7: when neither the start directory nor any ancestor up to the root
\* holds settings.ini or .env, the Resolver cached owns the Empty
\* repository: a key absent from the environment without a default raises
\* UndefinedValueError, a key of the environment is resolved and cast.
C7_EmptyFallback ==
    (/\ last.op = "call" /\ last.searched
     /\ \A d \in DOMAIN fs, n \in SupportedNames : fs[d][n] = "absent") =>
        /\ config.t = "Config"
        /\ config.repository.kind = "Empty"
        /\ C7_FromEnvironOrDefault

\* C7 witness: nothing on the way from two levels down to the root, and the
\* key without a default raised UndefinedValueError
C7_Witness ==
    /\ last.op = "call" /\ last.searched
    /\ search_path = 2
    /\ \A d \in DOMAIN fs, n \in SupportedNames : fs[d][n] = "absent"
    /\ config.t = "Config" /\ config.repository.kind = "Empty"
    /\ last.key \notin DOMAIN environ
    /\ last.out = Raise("UndefinedValueError", <<>>)

\* an existence check that raises is reached: everything checked before it
\* is absent
C8_ErrorReached ==
    \E d \in DOMAIN fs, n \in SupportedNames :
        /\ fs[d][n] = "error"
        /\ \A e \in DOMAIN fs, m \in SupportedNames : e > d => fs[e][m] = "absent"
        /\ n = ".env" => fs[d]["settings.ini"] = "absent"

\* C8: when an existence check raises during the search, the exception does
\* not come out of the call; the Locator ends with the Empty repository and
\* the key is resolved from the environment or the default.
C8_ExceptionSwallowed ==
    (last.op = "call" /\ last.searched /\ C8_ErrorReached) =>
        /\ last.out.exc \notin {"Exception", "RecursionError", "ConstructionError"}
        /\ config.t = "Config"
        /\ config.repository.kind = "Empty"
        /\ C7_FromEnvironOrDefault

\* C8 witness: the check of settings.ini in the start directory raises, an
\* ancestor holds a file, and the key was resolved from the environment
\* over the Empty repository
C8_Witness ==
    /\ last.op = "call" /\ last.searched
    /\ search_path > 0
    /\ fs[search_path]["settings.ini"] = "error"
    /\ fs[0]["settings.ini"] = "file"
    /\ config.t = "Config" /\ config.repository.kind = "Empty"
    /\ last.key = KeyFallback
    /\ last.out.kind = "return" /\ last.out.val = PyBool(TRUE)

\* C9 as stated: over all the invocations of one Locator the search runs at
\* most once.
C9_Original == searches <= 1

\* C9 amended: nothing is searched or built at construction; a call
\* searches exactly when no Resolver is cached (the first call, and a later
\* one only while every earlier construction raised); once a Resolver is
\* cached no later call searches or replaces it or its Repository.
C9_Amended ==
    /\ config.t = "NoneType" /\ searches = 0
    /\ [][ /\ config.t = "Config" => (config' = config /\ searches' = searches)
           /\ searches' # searches =>
                 (config.t = "NoneType" /\ searches' = searches + 1
                  /\ last'.op = "call" /\ last'.searched)
           /\ (last'.op = "call" /\ config.t = "NoneType") =>
                 (last'.searched /\ searches' = searches + 1)
           /\ (last'.op = "call" /\ config.t = "Config") => ~last'.searched ]_vars

\* C9 witness: a call was answered by the cached Resolver, built by the one
\* search, after the file its Repository was read from had been removed
C9_Witness ==
    /\ last.op = "call" /\ ~last.searched
    /\ searches = 1
    /\ config.t = "Config"
    /\ config.repository.kind = "Ini"
    /\ fs[config.repository.source.d]["settings.ini"] = "absent"

(***************************************************************************)
(* The list-splitter: Csv, and the shlex tokenizer it hands the value to   *)
(***************************************************************************)

\* a list of values
PyList(x) == [t |-> "list", s |-> x, b |-> FALSE]

\* Csv.__init__: cast is "str" or a "callable" of the caller, delimiter and
\* strip are strings, kept as the set of their characters
Csv(cast, delimiter, strip) == [cast |-> cast, delimiter |-> delimiter, strip |-> strip]

\* string.whitespace, as far as the texts of the model go
whitespace == {" ", "\t", "\n", "\r"}

\* the attributes shlex.__init__ sets and Csv.__call__ leaves alone
commenters == {"#"}
quotes == {"'", "\""}
escape == {"\\"}
escapedquotes == {"\""}

\* str.strip(chars)
RECURSIVE LStripOf(_, _)
LStripOf(x, chars) ==
    IF x # <<>> /\ Head(x) \in chars THEN LStripOf(Tail(x), chars) ELSE x

RECURSIVE RStripOf(_, _)
RStripOf(x, chars) ==
    IF x # <<>> /\ x[Len(x)] \in chars
    THEN RStripOf(SubSeq(x, 1, Len(x) - 1), chars)
    ELSE x

StripOf(x, chars) == RStripOf(LStripOf(x, chars), chars)

\* instream.readline() with the stream at position p: the position after
\* the next newline, or the end of the stream
RECURSIVE readline(_, _)
readline(s, p) ==
    IF p > Len(s) THEN p
    ELSE IF s[p] = "\n" THEN p + 1
    ELSE readline(s, p + 1)

\* what read_token leaves: the token (eof when it is unquoted and empty), and
\* the position and state the splitter is left in; or the ValueError raised
Token(token, quoted, p, state) ==
    [kind |-> "return", eof |-> (~quoted /\ token = <<>>), token |-> token,
     p |-> p, state |-> state]
TokenError ==
    [kind |-> "raise", eof |-> FALSE, token |-> <<>>, p |-> 0, state |-> "None"]

\* shlex.read_token with posix=True, whitespace = the delimiter,
\* whitespace_split = True and no punctuation_chars; s is the stream, p the
\* position of the next character, state/token/quoted/escapedstate the
\* variables of the loop.  A word character and any other character that is
\* no delimiter, commenter, escape or quote take the same branch.
RECURSIVE read_token(_, _, _, _, _, _, _)
read_token(delimiter, s, p, state, token, quoted, escapedstate) ==
    LET end == p > Len(s)
        nextchar == IF end THEN "" ELSE s[p]
        emit(q, st) ==
            IF token # <<>> \/ quoted
            THEN Token(token, quoted, q, st)
            ELSE read_token(delimiter, s, q, st, token, quoted, escapedstate)
    IN IF state = "None" THEN Token(<<>>, quoted, p, state)
       ELSE IF state = " "
       THEN IF end THEN Token(token, quoted, p, "None")
            ELSE IF nextchar \in delimiter THEN emit(p + 1, state)
            ELSE IF nextchar \in commenters
            THEN read_token(delimiter, s, readline(s, p + 1), state, token, quoted, escapedstate)
            ELSE IF nextchar \in escape
            THEN read_token(delimiter, s, p + 1, nextchar, token, quoted, "a")
            ELSE IF nextchar \in quotes
            THEN read_token(delimiter, s, p + 1, nextchar, token, quoted, escapedstate)
            ELSE read_token(delimiter, s, p + 1, "a", <<nextchar>>, quoted, escapedstate)
       ELSE IF state \in quotes
       THEN IF end THEN TokenError
            ELSE IF nextchar = state
            THEN read_token(delimiter, s, p + 1, "a", token, TRUE, escapedstate)
            ELSE IF nextchar \in escape /\ state \in escapedquotes
            THEN read_token(delimiter, s, p + 1, nextchar, token, TRUE, state)
            ELSE read_token(delimiter, s, p + 1, state, token \o <<nextchar>>, TRUE, escapedstate)
       ELSE IF state \in escape
       THEN IF end THEN TokenError
            ELSE LET kept == IF escapedstate \in quotes /\ nextchar # state
                                /\ nextchar # escapedstate
                             THEN token \o <<state>> ELSE token
                 IN read_token(delimiter, s, p + 1, escapedstate, kept \o <<nextchar>>,
                               quoted, escapedstate)
       ELSE IF end THEN Token(token, quoted, p, "None")
            ELSE IF nextchar \in delimiter THEN emit(p + 1, " ")
            ELSE IF nextchar \in commenters THEN emit(readline(s, p + 1), " ")
            ELSE IF nextchar \in quotes
            THEN read_token(delimiter, s, p + 1, nextchar, token, quoted, escapedstate)
            ELSE IF nextchar \in escape
            THEN read_token(delimiter, s, p + 1, nextchar, token, quoted, "a")
            ELSE read_token(delimiter, s, p + 1, state, token \o <<nextchar>>, quoted, escapedstate)

\* iterating the splitter (shlex.__next__) from position p in state state:
\* the tokens up to eof, or the ValueError of the token that has no end
RECURSIVE splitter(_, _, _, _)
splitter(delimiter, s, p, state) ==
    LET t == read_token(delimiter, s, p, state, <<>>, FALSE, " ")
    IN IF t.kind = "raise" THEN [kind |-> "raise", tokens |-> <<>>]
       ELSE IF t.eof THEN [kind |-> "return", tokens |-> <<>>]
       ELSE LET rest == splitter(delimiter, s, t.p, t.state)
            IN IF rest.kind = "raise" THEN rest
               ELSE [rest EXCEPT !.tokens = <<t.token>> \o @]

\* transform without s.strip(self.strip)
transform_no_strip(self, s) ==
    IF self.cast = "str" THEN PyStr(s) ELSE PyCasted(s)

\* transform of Csv.__call__: self.cast(s.strip(self.strip))
transform(self, s) ==
    IF self.cast = "str" THEN PyStr(StripOf(s, self.strip))
    ELSE PyCasted(StripOf(s, self.strip))

\* Csv.__call__
Csv_call(self, val) ==
    IF val.t = "NoneType" THEN Return(PyList(<<>>), <<>>)
    ELSE LET split == splitter(self.delimiter, val.s, 1, " ")
         IN IF split.kind = "raise" THEN Raise("ValueError", <<>>)
            ELSE Return(PyList([k \in 1..Len(split.tokens) |->
                                    transform(self, split.tokens[k])]), <<>>)

\* the Csv objects followed: Csv(), Csv(cast=f), Csv(delimiter=', ') and
\* Csv(strip='a')
CsvObjects ==
    { Csv("str", {","}, whitespace),
      Csv("callable", {","}, whitespace),
      Csv("str", {",", " "}, whitespace),
      Csv("str", {","}, {"a"}) }

CsvAlphabet == {"a", ",", "'", "\"", " ", "#", "\\"}

\* the raw strings: every short string, the examples of the documentation,
\* and longer ones with a comment, a line break, an escape or nested quotes
CsvTexts ==
    UNION {[1..n -> CsvAlphabet] : n \in 0..MaxCsvLen}
    \cup { <<"a", ",", "b", ",", "c">>,
           <<"'", "a", ",", "b", "'", ",", "c">>,
           <<"a", ",", " ", "b", " ", ",", "c">>,
           <<"a", "#", "b", "\n", "c", ",", "d">>,
           <<"\"", "a", "\\", "\"", ",", "\"", ",", "b">>,
           <<"a", "'", "b", ",", "c", "'", "d">> }

InitCsv ==
    /\ csv_value \in {PyNone} \cup {PyStr(t) : t \in CsvTexts}
    /\ environ = EmptyDict
    /\ config = None
    /\ file = <<>>
    /\ search_path = 0
    /\ fs = NoFs
    /\ searches = 0
    /\ last = NoOp

\* csv(csv_value) for one of the Csv objects
CsvCall(csv) ==
    /\ last' = [op |-> "csv", csv |-> csv, out |-> Csv_call(csv, csv_value)]
    /\ UNCHANGED <<environ, config, search_path, fs, file, searches, csv_value>>

NextCsv == \E csv \in CsvObjects : CsvCall(csv)

SpecCsv == InitCsv /\ [][NextCsv]_vars

\* the quote that is open after the first i characters of s, "" when none
\* is: a quote character opens a quotation when none is open and closes the
\* one it opened
RECURSIVE C11_Open(_, _)
C11_Open(s, i) ==
    IF i = 0 THEN ""
    ELSE LET before == C11_Open(s, i - 1)
         IN IF before = "" THEN (IF s[i] \in {"'", "\""} THEN s[i] ELSE "")
            ELSE IF s[i] = before THEN "" ELSE before

\* the i-th character of s is a quote character that opens or closes a quotation
C11_QuoteMark(s, i) == C11_Open(s, i) # C11_Open(s, i - 1)

\* where s is split: before its first character, at every delimiter
\* character outside quotes, and after its last character
C11_Cuts(csv, s) ==
    {0, Len(s) + 1}
    \cup {i \in 1..Len(s) : s[i] \in csv.delimiter /\ C11_Open(s, i) = ""}

\* the cut that ends the segment starting after the cut lo
C11_End(csv, s, lo) ==
    CHOOSE hi \in C11_Cuts(csv, s) :
        hi > lo /\ \A c \in C11_Cuts(csv, s) : c > lo => hi <= c

\* the characters of s from position i to position hi that are no quote marks
RECURSIVE C11_Unquoted(_, _, _)
C11_Unquoted(s, i, hi) ==
    IF i > hi THEN <<>>
    ELSE (IF C11_QuoteMark(s, i) THEN <<>> ELSE <<s[i]>>) \o C11_Unquoted(s, i + 1, hi)

\* x without its leading and trailing characters that are in chars
C11_Trimmed(x, chars) ==
    LET kept == {i \in 1..Len(x) : x[i] \notin chars}
    IN IF kept = {} THEN <<>>
       ELSE SubSeq(x, CHOOSE i \in kept : \A j \in kept : i <= j,
                      CHOOSE i \in kept : \A j \in kept : j <= i)

\* the element the segment after the cut lo gives
C11_Element(csv, s, lo) ==
    LET x == C11_Trimmed(C11_Unquoted(s, lo + 1, C11_End(csv, s, lo) - 1), csv.strip)
    IN IF csv.cast = "str" THEN PyStr(x) ELSE PyCasted(x)

\* the elements of the segments starting after the cuts in starts, in input order
C11_Elements(csv, s, starts) ==
    [k \in 1..Cardinality(starts) |->
        C11_Element(csv, s, CHOOSE lo \in starts :
                                Cardinality({c \in starts : c < lo}) = k - 1)]

\* every segment, and the segments of at least one character
C11_Segments(csv, s) == C11_Cuts(csv, s) \ {Len(s) + 1}
C11_NonEmptySegments(csv, s) ==
    {lo \in C11_Segments(csv, s) : lo + 1 \notin C11_Cuts(csv, s)}

\* no '#' outside quotes and no backslash other than inside single quotes
C11_NoCommentNoEscape(s) ==
    \A i \in 1..Len(s) :
        /\ s[i] = "#" => C11_Open(s, i) # ""
        /\ s[i] = "\\" => C11_Open(s, i) = "'"

C11_abc == <<"a", ",", "b", ",", "c">>
C11_quoted_ab_c == <<"'", "a", ",", "b", "'", ",", "c">>

\* C11 as stated: for every raw string Csv returns, in input order, one
\* element per segment between the delimiter characters outside quotes,
\* quote characters removed, trimmed of the strip characters and cast; and
\* None gives the empty list.
C11_Original ==
    last.op = "csv" =>
        last.out = Return(PyList(IF csv_value.t = "NoneType" THEN <<>>
                                 ELSE C11_Elements(last.csv, csv_value.s,
                                          C11_Segments(last.csv, csv_value.s))), <<>>)

\* C11 amended: None gives the empty list.  For a raw string with no '#'
\* outside quotes and no backslash other than inside single quotes: if a
\* quote is left open Csv raises ValueError; otherwise it returns, in input
\* order, one element per segment of at least one character between the
\* delimiter characters outside quotes (a segment of no character gives no
\* element), quote characters removed, trimmed of the strip characters and
\* cast.  'a,b',c gives ["a,b", "c"] and a,b,c gives ["a", "b", "c"].
C11_Amended ==
    last.op = "csv" =>
        /\ csv_value.t = "NoneType" => last.out = Return(PyList(<<>>), <<>>)
        /\ (csv_value.t = "str" /\ C11_NoCommentNoEscape(csv_value.s)) =>
              IF C11_Open(csv_value.s, Len(csv_value.s)) # ""
              THEN last.out.kind = "raise" /\ last.out.exc = "ValueError"
              ELSE last.out =
                     Return(PyList(C11_Elements(last.csv, csv_value.s,
                               C11_NonEmptySegments(last.csv, csv_value.s))), <<>>)
        /\ (csv_value = PyStr(C11_quoted_ab_c) /\ last.csv = Csv("str", {","}, whitespace)) =>
              last.out = Return(PyList(<<PyStr(<<"a", ",", "b">>), PyStr(<<"c">>)>>), <<>>)
        /\ (csv_value = PyStr(C11_abc) /\ last.csv = Csv("str", {","}, whitespace)) =>
              last.out = Return(PyList(<<PyStr(<<"a">>), PyStr(<<"b">>), PyStr(<<"c">>)>>), <<>>)

\* C11 witness: Csv() was called with 'a,b',c and returned the two elements
\* a,b and c, the quoted delimiter not splitting
C11_Witness ==
    /\ last.op = "csv"
    /\ last.csv = Csv("str", {","}, whitespace)
    /\ csv_value = PyStr(C11_quoted_ab_c)
    /\ last.out.kind = "return"
    /\ last.out.val = PyList(<<PyStr(<<"a", ",", "b">>), PyStr(<<"c">>)>>)

\* C11 witness: a Csv with a cast and strip characters to trim returned
\* several elements, an empty segment between them giving none
C11_WitnessTrimmed ==
    /\ last.op = "csv"
    /\ last.csv.cast = "callable"
    /\ csv_value = PyStr(<<" ", "a", ",", ",">>)
    /\ last.out.kind = "return"
    /\ last.out.val = PyList(<<PyCasted(<<"a">>)>>)

\* C11 witness: a quote left open made Csv raise
C11_WitnessOpenQuote ==
    /\ last.op = "csv"
    /\ csv_value = PyStr(<<"a", ",", "'", "a">>)
    /\ last.out.kind = "raise"


(***************************************************************************)
(* The upward search of the Locator when no directory on the path to the   *)
(* root holds a supported file                                             *)
(***************************************************************************)

\* no directory from the starting one up to the root holds settings.ini or .env
C12_NoSupportedFile ==
    \A d \in DOMAIN fs : \A n \in SupportedNames : fs[d][n] = "absent"

\* no directory occurs twice among the directories a search visited
C12_VisitedOnce ==
    \A i, j \in 1..Len(last.visited) :
        last.visited[i] = last.visited[j] => i = j

\* C12: from a starting directory of finite depth in which neither it nor any
\* ancestor holds a supported file, _find_file ends by itself: it visits each
\* directory on the path to the root at most once and returns the not-found
\* result normally, no exception ending the search.
C12_Terminates ==
    (last.op = "call" /\ last.searched /\ C12_NoSupportedFile) =>
        /\ last.searchExc = ""
        /\ last.found = NoSource
        /\ C12_VisitedOnce

====
